---- MODULE Spec2Model ----
(***************************************************************************)
(* A model of pyglimmpse's NonCentralityDistribution engine                *)
(* (src/pyglimmpse/NonCentralityDistribution.py).                          *)
(*                                                                         *)
(* Real numbers are exact rationals [n |-> numerator, d |-> denominator]   *)
(* in lowest terms with d > 0, so the sign tests, the boundary tests and   *)
(* the branch selection of the code are decided exactly.  Matrices are     *)
(* sequences of rows.  The model's input matrices are diagonal, which is   *)
(* the case in which the Cholesky factor and the eigen-decomposition of    *)
(* the numerical library have closed forms.                                *)
(***************************************************************************)
EXTENDS Integers, Sequences, FiniteSets, TLC

(* ------------------------------------------------------------------ *)
(* Exact arithmetic standing for Python / numpy float arithmetic       *)
(* ------------------------------------------------------------------ *)

Abs(x) == IF x < 0 THEN -x ELSE x

RECURSIVE Gcd(_, _)
Gcd(x, y) == IF y = 0 THEN x ELSE Gcd(y, x % y)

\* the rational n/d (d # 0) in lowest terms with a positive denominator
Rat(n, d) ==
    LET s == IF d < 0 THEN -1 ELSE 1
        g == Gcd(Abs(n), Abs(d))
    IN  [n |-> (s * n) \div g, d |-> (s * d) \div g]

RInt(i) == [n |-> i, d |-> 1]
RZero == RInt(0)
ROne == RInt(1)

\* whole numbers need no reduction
Whole(x, y) == x.d = 1 /\ y.d = 1

RAdd(x, y) ==
    IF Whole(x, y) THEN [n |-> x.n + y.n, d |-> 1]
    ELSE Rat(x.n * y.d + y.n * x.d, x.d * y.d)
RSub(x, y) ==
    IF Whole(x, y) THEN [n |-> x.n - y.n, d |-> 1]
    ELSE Rat(x.n * y.d - y.n * x.d, x.d * y.d)
RMul(x, y) ==
    IF Whole(x, y) THEN [n |-> x.n * y.n, d |-> 1]
    ELSE Rat(x.n * y.n, x.d * y.d)
\* x / y for y # 0; every use is guarded by the caller as the code's is
RDiv(x, y) == Rat(x.n * y.d, x.d * y.n)
RNeg(x) == [n |-> -x.n, d |-> x.d]
RLt(x, y) == x.n * y.d < y.n * x.d
RLe(x, y) == x.n * y.d <= y.n * x.d

\* the square root of a perfect square (the model's inputs keep every
\* argument of a square root a perfect square)
ISqrt(k) == CHOOSE r \in 0..k : r * r = k
RSqrt(x) == [n |-> ISqrt(x.n), d |-> ISqrt(x.d)]

\* the sum of a sequence
RECURSIVE RSum(_)
RSum(s) ==
    IF Len(s) = 0 THEN RZero
    ELSE IF Len(s) = 1 THEN s[1]
    ELSE RAdd(s[1], RSum(Tail(s)))

(* ------------------------------------------------------------------ *)
(* numpy matrices: a matrix is a sequence of rows                      *)
(* ------------------------------------------------------------------ *)

\* the value None of the matrix-valued fields
None == <<>>

Rows(m) == Len(m)
Cols(m) == Len(m[1])

\* m.T
Transpose(m) == [j \in 1..Cols(m) |-> [i \in 1..Rows(m) |-> m[i][j]]]

\* np.matrix product x * y
MatMul(x, y) ==
    [i \in 1..Rows(x) |->
        [j \in 1..Cols(y) |->
            RSum([k \in 1..Rows(y) |-> RMul(x[i][k], y[k][j])])]]

\* np.matrix times a scalar
Scale(m, r) == [i \in 1..Rows(m) |-> [j \in 1..Cols(m) |-> RMul(m[i][j], r)]]

MatAdd(x, y) == [i \in 1..Rows(x) |-> [j \in 1..Cols(x) |-> RAdd(x[i][j], y[i][j])]]

\* np.trace
Trace(m) == RSum([i \in 1..Rows(m) |-> m[i][i]])

\* np.identity(b)
Identity(b) == [i \in 1..b |-> [j \in 1..b |-> IF i = j THEN ROne ELSE RZero]]

\* np.tril(m): the lower triangle with the diagonal, zero above it
Tril(m) == [i \in 1..Rows(m) |-> [j \in 1..Cols(m) |-> IF j <= i THEN m[i][j] ELSE RZero]]

\* np.triu(m, 1): the triangle strictly above the diagonal, zero elsewhere
Triu1(m) == [i \in 1..Rows(m) |-> [j \in 1..Cols(m) |-> IF j > i THEN m[i][j] ELSE RZero]]

\* determinant of a 1x1 or a 2x2 matrix
Det(m) ==
    IF Rows(m) = 1 THEN m[1][1]
    ELSE RSub(RMul(m[1][1], m[2][2]), RMul(m[1][2], m[2][1]))

\* np.linalg.inv raises LinAlgError("Singular matrix") exactly when this fails
Invertible(m) == Det(m) # RZero

\* np.linalg.inv of an invertible 1x1 or 2x2 matrix
Inv(m) ==
    IF Rows(m) = 1 THEN << << RDiv(ROne, m[1][1]) >> >>
    ELSE LET dt == Det(m)
         IN  << << RDiv(m[2][2], dt), RDiv(RNeg(m[1][2]), dt) >>,
                << RDiv(RNeg(m[2][1]), dt), RDiv(m[1][1], dt) >> >>

IsDiagonal(m) == \A i \in 1..Rows(m) : \A j \in 1..Cols(m) : i # j => m[i][j] = RZero

\* np.linalg.cholesky reads the lower triangle and raises LinAlgError unless
\* the pivots are positive
CholeskyOk(m) ==
    /\ RLt(RZero, m[1][1])
    /\ Rows(m) = 2 =>
         RLt(RZero, RSub(m[2][2], RDiv(RMul(m[2][1], m[2][1]), m[1][1])))

\* the lower-triangular factor L with L * L.T = m
Cholesky(m) ==
    LET l11 == RSqrt(m[1][1])
    IN  IF Rows(m) = 1 THEN << << l11 >> >>
        ELSE LET l21 == RDiv(m[2][1], l11)
                 l22 == RSqrt(RSub(m[2][2], RMul(l21, l21)))
             IN  << << l11, RZero >>, << l21, l22 >> >>

\* the eigenvalues of a diagonal matrix are its diagonal entries; numpy
\* orders neither np.linalg.eig's nor np.linalg.eigvals' output, so the
\* order is the permutation `order` of 1..Rows(m)
EigValues(m, order) == [k \in 1..Rows(m) |-> m[order[k]][order[k]]]

\* the eigenvectors, as columns in the order of the eigenvalues
EigVectors(m, order) ==
    [i \in 1..Rows(m) |-> [k \in 1..Rows(m) |-> IF i = order[k] THEN ROne ELSE RZero]]

\* s[::-1]
Reverse(s) == [k \in 1..Len(s) |-> s[Len(s) + 1 - k]]

\* np.flip(m, 1): the columns in reverse order
FlipColumns(m) == [i \in 1..Rows(m) |-> Reverse(m[i])]

(* ------------------------------------------------------------------ *)
(* The engine                                                          *)
(* ------------------------------------------------------------------ *)

\* the test-type tags Constants.HLT and a UNIREP-family tag, and the
\* value of the enumeration member Constants.HLT
HLT == "HLT"
UNIREP == "UNIREP"
HLT_value == "hlt"

\* Python truth value of a string
Truthy(v) == v # ""

ERR_NOT_POSITIVE_DEFINITE == "NOT_POSITIVE_DEFINITE"

\* the class attributes: the fields of an instance before initialize
ClassDefaults ==
    [T1 |-> None, FT1 |-> None, S |-> None, mzSq |-> None,
     H1 |-> RZero, H0 |-> RZero, qF |-> 0, a |-> 0, N |-> RZero,
     sEigenValues |-> <<>>, sStar |-> 0, exact |-> FALSE, errors |-> <<>>]

\* a forceSymmetric that takes the upper triangle of m itself
forceSymmetricUntransposed(m) == MatAdd(Tril(m), Triu1(m))

\* forceSymmetric(m) = np.tril(m) + np.triu(m.T, 1)
forceSymmetric(m) == MatAdd(Tril(m), Triu1(Transpose(m)))

\* isPositiveDefinite(m) for a square m: every eigenvalue is > 0
isPositiveDefinite(m) ==
    LET eigenvalues == EigValues(m, [k \in 1..Rows(m) |-> k])
    IN  \A k \in 1..Len(eigenvalues) : RLt(RZero, eigenvalues[k])

\* the errors list after getSigmaStarInverse's positive-definiteness check
SigmaStarErrors(errors, sigma_star) ==
    IF ~isPositiveDefinite(sigma_star)
    THEN Append(errors, ERR_NOT_POSITIVE_DEFINITE)
    ELSE errors

\* the condition `test == Constants.HLT or Constants.HLT.value`
SelectsDirectInverse(test) == test = HLT \/ Truthy(HLT_value)

\* the sphericity-adjusted form of getSigmaStarInverse's else branch
UnirepInverse(sigma_star) ==
    LET b == Cols(sigma_star)
        sigmaStarTrace == Trace(sigma_star)
        sigmaStarSquaredTrace == Trace(MatMul(sigma_star, sigma_star))
        epsilon == RDiv(RMul(sigmaStarTrace, sigmaStarTrace),
                        RMul(RInt(b), sigmaStarSquaredTrace))
    IN  Scale(Identity(b), RDiv(RMul(RInt(b), epsilon), sigmaStarTrace))

\* the value getSigmaStarInverse returns when it returns
getSigmaStarInverse(sigma_star, test) ==
    IF SelectsDirectInverse(test) THEN Inv(sigma_star) ELSE UnirepInverse(sigma_star)

\* whether getSigmaStarInverse raises, and what
SigmaStarInverseRaises(sigma_star, test) ==
    IF Rows(sigma_star) # Cols(sigma_star) THEN "Exception"
    ELSE IF SelectsDirectInverse(test)
         THEN (IF Invertible(sigma_star) THEN "" ELSE "LinAlgError")
         ELSE ""

\* S with a non-finite entry (the product with 1 / H1 when H1 = 0)
NotFinite == << <<>> >>

\* entries left as the projections, not squared
SquareEntriesOmitted(m) == [i \in 1..Rows(m) |-> [j \in 1..Cols(m) |-> m[i][j]]]

\* the elementwise squares of lines 115-123
SquareEntries(m) == [i \in 1..Rows(m) |-> [j \in 1..Cols(m) |-> RMul(m[i][j], m[i][j])]]

\* the number of strictly positive entries (lines 108-110)
CountPositive(s) == Cardinality({k \in 1..Len(s) : RLt(RZero, s[k])})

\* H0 of lines 103-106, from the value line 67 set
LowerBound(H0, H1, sEigenValues) ==
    LET h == IF Len(sEigenValues) > 0
             THEN RMul(H1, RSub(ROne, sEigenValues[1]))
             ELSE H0
    IN  IF RLe(h, RZero) THEN RZero ELSE h

\* the reordering of lines 99-100 applied to eig's values
StoredEigenValues(values) == Reverse(values)

\* initialize is a chain of steps; each step below takes the fields as
\* the steps before it left them, and gives the fields initialize leaves
\* and the exception it raises ("" when it returns)

\* lines 114-123: mzSq
InitNoncentralities(e, args, svec) ==
    IF args.stddevG = RZero THEN [eng |-> e, raised |-> "ZeroDivisionError"]
    ELSE [eng |-> [e EXCEPT !.mzSq =
                      SquareEntries(Scale(MatMul(MatMul(svec, Transpose(e.FT1)),
                                                 args.CGaussian),
                                          RDiv(ROne, args.stddevG)))],
          raised |-> ""]

\* lines 103-110: H0 and sStar
InitSupport(e, args, svec) ==
    InitNoncentralities(
        [e EXCEPT !.H0 = LowerBound(e.H0, e.H1, e.sEigenValues),
                  !.sStar = CountPositive(e.sEigenValues)],
        args, svec)

\* lines 98-101: the eigen-decomposition of S, returned by the library in
\* the order `order`
InitEigen(e, args, order) ==
    InitSupport([e EXCEPT !.sEigenValues = StoredEigenValues(EigValues(e.S, order))],
                args, Transpose(FlipColumns(EigVectors(e.S, order))))

\* line 93: S; np.linalg.eig raises LinAlgError on a non-finite matrix
InitS(e, args, order, sigmaStarInverse) ==
    IF e.H1 = RZero THEN [eng |-> [e EXCEPT !.S = NotFinite], raised |-> "LinAlgError"]
    ELSE InitEigen(
             [e EXCEPT !.S =
                 Scale(MatMul(MatMul(MatMul(MatMul(Transpose(e.FT1), args.thetaDiff),
                                            sigmaStarInverse),
                                     Transpose(args.thetaDiff)),
                              e.FT1),
                       RDiv(ROne, e.H1))],
             args, order)

\* lines 90-91: H1
InitH1(e, args, order, sigmaStarInverse) ==
    InitS([e EXCEPT !.H1 =
              Trace(MatMul(MatMul(MatMul(Transpose(args.thetaDiff), e.T1), args.thetaDiff),
                           sigmaStarInverse))],
          args, order, sigmaStarInverse)

\* line 89: getSigmaStarInverse, which appends to errors before it inverts
InitSigma(e, args, order) ==
    IF Rows(args.sigmaStar) # Cols(args.sigmaStar) THEN [eng |-> e, raised |-> "Exception"]
    ELSE IF SigmaStarInverseRaises(args.sigmaStar, args.test) # ""
    THEN [eng |-> [e EXCEPT !.errors = SigmaStarErrors(e.errors, args.sigmaStar)],
          raised |-> SigmaStarInverseRaises(args.sigmaStar, args.test)]
    ELSE InitH1([e EXCEPT !.errors = SigmaStarErrors(e.errors, args.sigmaStar)],
                args, order, getSigmaStarInverse(args.sigmaStar, args.test))

\* line 84: FT1
InitFT1(e, args, order) ==
    IF ~CholeskyOk(e.T1) THEN [eng |-> e, raised |-> "LinAlgError"]
    ELSE InitSigma([e EXCEPT !.FT1 = Cholesky(e.T1)], args, order)

\* lines 82-83: PPt and T1
InitT1(e, args, order, PPt) ==
    IF ~Invertible(PPt) THEN [eng |-> e, raised |-> "LinAlgError"]
    ELSE InitFT1([e EXCEPT !.T1 = forceSymmetric(Inv(PPt))], args, order)

\* lines 81-82: FtFinverse and 1 / perGroupN
InitGram(e, args, order, gram) ==
    IF ~Invertible(gram) THEN [eng |-> e, raised |-> "LinAlgError"]
    ELSE IF args.perGroupN = RZero THEN [eng |-> e, raised |-> "ZeroDivisionError"]
    ELSE InitT1(e, args, order,
                MatMul(Scale(MatMul(args.Cfixed, Inv(gram)), RDiv(ROne, args.perGroupN)),
                       Transpose(args.Cfixed)))

\* initialize(self, ...), lines 63-76 and then the steps above.  `order` is
\* the order in which np.linalg.eig returns the eigenvalues of S.
initialize(self, args, order) ==
    InitGram([self EXCEPT !.T1 = None, !.FT1 = None, !.S = None, !.mzSq = None,
                          !.H0 = RZero, !.sStar = 0,
                          !.N = RMul(RInt(Rows(args.FEssence)), args.perGroupN),
                          !.exact = args.exact, !.errors = <<>>,
                          !.qF = Cols(args.FEssence)],
             args, order, MatMul(Transpose(args.FEssence), args.FEssence))

(* ------------------------------------------------------------------ *)
(* cdf                                                                 *)
(* ------------------------------------------------------------------ *)

\* ChiSquareTerm(lambda_, nu, delta)
ChiSquareTerm(lambda_, nu, delta) == [lambda_ |-> lambda_, nu |-> nu, delta |-> delta]

\* a base weight with the operands of the subtraction exchanged
BaseWeightExchanged(self, w) == RSub(RDiv(w, self.H1), ROne)

\* b0 of line 144
BaseWeight(self, w) == RSub(ROne, RDiv(w, self.H1))

\* the list chiSquareTerms of lines 155-204: the central base term, then
\* one term for each of the first sStar stored eigenvalues
ChiSquareTerms(self, w) ==
    LET b0 == BaseWeight(self, w)
    IN  << ChiSquareTerm(b0, RSub(self.N, RInt(self.qF)), RZero) >> \o
        [k \in 1..self.sStar |->
            ChiSquareTerm(RSub(b0, self.sEigenValues[k]), ROne, self.mzSq[k][1])]

\* the counters and moments of lines 145-153 after the terms of `terms`
\* were accumulated in order (lines 162-173 and 192-203)
RECURSIVE Accumulate(_)
Accumulate(terms) ==
    IF terms = <<>>
    THEN [numPositive |-> 0, numNegative |-> 0,
          lastPositiveNoncentrality |-> RZero, lastNegativeNoncentrality |-> RZero,
          m1Positive |-> RZero, m1Negative |-> RZero,
          m2Positive |-> RZero, m2Negative |-> RZero]
    ELSE LET acc == Accumulate(SubSeq(terms, 1, Len(terms) - 1))
             t == terms[Len(terms)]
             m1 == RMul(t.lambda_, RAdd(t.nu, t.delta))
             m2 == RMul(RMul(RMul(t.lambda_, t.lambda_), RInt(2)),
                        RAdd(t.nu, RMul(RInt(2), t.delta)))
         IN  IF RLt(RZero, t.lambda_)
             THEN [acc EXCEPT !.numPositive = @ + 1,
                              !.lastPositiveNoncentrality = t.delta,
                              !.m1Positive = RAdd(@, m1),
                              !.m2Positive = RAdd(@, m2)]
             ELSE IF RLt(t.lambda_, RZero)
             THEN [acc EXCEPT !.numNegative = @ + 1,
                              !.lastNegativeNoncentrality = t.delta,
                              !.m1Negative = RAdd(@, RNeg(m1)),
                              !.m2Negative = RAdd(@, m2)]
             ELSE acc

\* a call of a numerical collaborator: the function called, its point x
\* (finite, or "inf" / "nan" as numpy's float64 division produces them
\* where the divisor is zero), its degrees of freedom and noncentrality
NoCall == [fn |-> "none", x |-> RZero, xis |-> "finite",
           df1 |-> RZero, df2 |-> RZero, noncen |-> RZero]

\* what a call returns or raises:
\*   kind   "number", "pair" (a (prob, method) tuple), "dist" (a frozen
\*          scipy distribution object) or "raise"
\*   known  whether val is the returned number; a number a collaborator
\*          computed is not known to the model, only that it is a
\*          probability
\*   path   the return statement taken
\*   nterms the number of chi-square terms built before returning
\*   exc    the type of the exception raised, msg its message
\*   evals  the number of cdf evaluations an inverseCDF call made
Returned(kind, path, val, known, nterms, call) ==
    [kind |-> kind, path |-> path, val |-> val, known |-> known,
     exc |-> "", msg |-> <<>>, nterms |-> nterms, evals |-> 0, call |-> call]

Raised(exc, path, nterms) ==
    [kind |-> "raise", path |-> path, val |-> RZero, known |-> FALSE,
     exc |-> exc, msg |-> <<>>, nterms |-> nterms, evals |-> 0, call |-> NoCall]

\* lines 213-214
Nstar(self) == RSub(RAdd(RSub(self.N, RInt(self.qF)), RInt(self.a)), ROne)

FstarDenominator(self, w) == RMul(Nstar(self), RSub(self.H1, w))

\* the probf call of lines 216-219
ProbfPositive(self, w, acc) ==
    LET den == FstarDenominator(self, w)
    IN  [fn |-> "probf",
         x |-> IF den = RZero THEN RZero ELSE RDiv(w, den),
         xis |-> IF den = RZero THEN "inf" ELSE "finite",
         df1 |-> Nstar(self), df2 |-> ROne,
         noncen |-> acc.lastPositiveNoncentrality]

\* the probf call of lines 226-229, at 1 / Fstar
ProbfNegative(self, w, acc) ==
    LET den == FstarDenominator(self, w)
    IN  [fn |-> "probf",
         x |-> IF den = RZero THEN RZero ELSE RDiv(den, w),
         xis |-> "finite",
         df1 |-> ROne, df2 |-> Nstar(self),
         noncen |-> acc.lastNegativeNoncentrality]

\* the Satterthwaite approximation of lines 236-244: the arguments
\* handed to scipy.stats.f
Satterthwaite(acc) ==
    IF acc.m1Positive = RZero \/ acc.m2Positive = RZero
    THEN [fn |-> "f", x |-> RZero, xis |-> "nan",
          df1 |-> RZero, df2 |-> RZero, noncen |-> RZero]
    ELSE LET two == RInt(2)
             nuStarPositive == RDiv(RMul(two, RMul(acc.m1Positive, acc.m1Positive)),
                                    acc.m2Positive)
             nuStarNegative == RDiv(RMul(two, RMul(acc.m1Negative, acc.m1Negative)),
                                    acc.m2Negative)
             lambdaStarPositive == RDiv(acc.m2Positive, RMul(two, acc.m1Positive))
             lambdaStarNegative == RDiv(acc.m2Negative, RMul(two, acc.m1Negative))
         IN  [fn |-> "f",
              x |-> RDiv(RMul(nuStarNegative, lambdaStarNegative),
                         RMul(nuStarPositive, lambdaStarPositive)),
              xis |-> "finite",
              df1 |-> nuStarPositive, df2 |-> nuStarNegative, noncen |-> RZero]

\* lines 206-244: the return once the n terms are accumulated into acc
CdfOfMoments(self, w, n, acc) ==
        IF acc.numNegative = 0 THEN Returned("number", "noNegative", RZero, TRUE, n, NoCall)
        ELSE IF acc.numPositive = 0 THEN Returned("number", "noPositive", ROne, TRUE, n, NoCall)
        ELSE IF /\ acc.numNegative = 1 /\ acc.numPositive = 1
                /\ RLe(RZero, acc.lastPositiveNoncentrality)
                /\ acc.lastNegativeNoncentrality = RZero
        THEN Returned("pair", "probf", RZero, FALSE, n, ProbfPositive(self, w, acc))
        ELSE IF /\ acc.numNegative = 1 /\ acc.numPositive = 1
                /\ acc.lastPositiveNoncentrality = RZero
                /\ RLt(RZero, acc.lastNegativeNoncentrality)
        THEN Returned("number", "oneMinusProbf", RZero, FALSE, n, ProbfNegative(self, w, acc))
        ELSE IF self.exact
        THEN Returned("number", "exact", RZero, FALSE, n,
                      [NoCall EXCEPT !.fn = "WeightedSumOfNoncentralChiSquaresDistribution"])
        ELSE Returned("dist", "satterthwaite", RZero, FALSE, n, Satterthwaite(acc))

CdfOfTerms(self, w, terms) == CdfOfMoments(self, w, Len(terms), Accumulate(terms))

\* a boundary policy that tests the upper end first
BoundaryAboveFirst(self, w) ==
    IF RLe(RSub(self.H1, w), RZero) THEN "above"
    ELSE IF RLe(self.H1, RZero) \/ RLe(w, self.H0) THEN "below"
    ELSE "inside"

\* a boundary policy that excludes the lower end itself
BoundaryStrictBelow(self, w) ==
    IF RLe(self.H1, RZero) \/ RLt(w, self.H0) THEN "below"
    ELSE IF RLe(RSub(self.H1, w), RZero) THEN "above"
    ELSE "inside"

\* the boundary policy of lines 137-140: "below", "above" or "inside"
Boundary(self, w) ==
    IF RLe(self.H1, RZero) \/ RLe(w, self.H0) THEN "below"
    ELSE IF RLe(RSub(self.H1, w), RZero) THEN "above"
    ELSE "inside"

\* cdf(self, w)
cdf(self, w) ==
        IF Boundary(self, w) = "below" THEN Returned("number", "below", RZero, TRUE, 0, NoCall)
        ELSE IF Boundary(self, w) = "above" THEN Returned("number", "above", ROne, TRUE, 0, NoCall)
        \* self.mzSq[k, 0] with mzSq None: TypeError, re-raised as Exception
        ELSE IF self.sStar > 0 /\ self.mzSq = None THEN Raised("Exception", "terms", 1)
        ELSE CdfOfTerms(self, w, ChiSquareTerms(self, w))

(* ------------------------------------------------------------------ *)
(* inverseCDF                                                          *)
(* ------------------------------------------------------------------ *)

\* the class attributes of lines 17-18
MAX_ITERATIONS == 10000
ACCURACY == Rat(1, 1000)

\* the number of halvings of scipy's bisect that are followed
BisectHalvings == 2

\* the sign of quantFunc(n) = quantile - cdf(n) for a number cdf returned;
\* `guess` is the sign when a collaborator computed the number
QuantSign(r, quantile, guess) ==
    IF ~r.known THEN guess
    ELSE IF RLt(r.val, quantile) THEN 1
    ELSE IF r.val = quantile THEN 0
    ELSE -1

\* what the evaluation of quantFunc raises for a cdf result: "" for a
\* number; a tuple or a distribution object cannot be subtracted from a
\* float (TypeError); an exception of cdf propagates
QuantFuncRaises(r) ==
    IF r.kind = "number" THEN ""
    ELSE IF r.kind = "raise" THEN r.exc
    ELSE "TypeError"

\* the except clause of lines 256-257 for the exception `exc` with first
\* argument `arg0`: the concatenation of the prefix and e.args[0] raises
\* TypeError itself unless e.args[0] is a string
BisectFailure(exc, arg0, evals) ==
    IF exc = "Exception"
    THEN [Raised("TypeError", "handler", 0) EXCEPT
             !.msg = << "can only concatenate str to str" >>, !.evals = evals]
    ELSE [Raised("Exception", "handler", 0) EXCEPT
             !.msg = << "Failed to determine non-centrality quantile: ", arg0 >>,
             !.evals = evals]

TypeErrorMessage == "unsupported operand type(s) for -"
SignErrorMessage == "f(a) and f(b) must have different signs"

\* the defaults of scipy.optimize.bisect, which line 255 leaves in force:
\* xtol = 2e-12 = 1 / (500000 * 1000000) and maxiter = 100
BisectXtolInverse == << 500000, 1000000 >>
BisectMaxiter == 100
ConvergenceMessage == "Failed to converge after 100 iterations."

\* abs(dm) < xtol, without forming a number above 2^31 (the term
\* rtol * abs(xm) = 2^-50 * abs(xm) is below the resolution of the numbers here)
BisectConverged(dm) ==
    \/ dm.n = 0
    \/ /\ Abs(dm.n) < 2147
       /\ Abs(dm.n) * BisectXtolInverse[2] <= (dm.d - 1) \div BisectXtolInverse[1]

\* the loop of scipy.optimize.bisect: halve dm, evaluate the midpoint, move
\* the lower end when the function has the sign it has there (positive),
\* return the midpoint on a zero or on convergence, fail after maxiter
\* halvings.  The search is followed for BisectHalvings halvings; where it
\* goes on, the estimate so far is given as a value that is not known.
RECURSIVE BisectLoop(_, _, _, _, _, _)
BisectLoop(self, quantile, xa, dm, i, guesses) ==
    LET half == RMul(dm, Rat(1, 2))
        xm == RAdd(xa, half)
        r == cdf(self, xm)
        evals == 2 + i
    IN  IF i > BisectMaxiter
        THEN BisectFailure("RuntimeError", ConvergenceMessage, evals - 1)
        ELSE IF QuantFuncRaises(r) # ""
        THEN BisectFailure(QuantFuncRaises(r), TypeErrorMessage, evals)
        ELSE LET fm == QuantSign(r, quantile, guesses[i])
             IN  IF fm = 0 \/ BisectConverged(half)
                 THEN [Returned("number", "bisect", xm, TRUE, 0, NoCall) EXCEPT
                          !.evals = evals]
                 ELSE IF i >= BisectHalvings
                 THEN [Returned("number", "bisect", xm, FALSE, 0, NoCall) EXCEPT
                          !.evals = evals]
                 ELSE BisectLoop(self, quantile, IF fm >= 0 THEN xm ELSE xa,
                                 half, i + 1, guesses)

\* scipy.optimize.bisect(quantFunc, a, b)
Bisect(self, quantile, a, b, guesses) ==
    LET ra == cdf(self, a)
        rb == cdf(self, b)
    IN  IF QuantFuncRaises(ra) # ""
        THEN BisectFailure(QuantFuncRaises(ra), TypeErrorMessage, 1)
        ELSE IF QuantFuncRaises(rb) # ""
        THEN BisectFailure(QuantFuncRaises(rb), TypeErrorMessage, 2)
        ELSE LET fa == QuantSign(ra, quantile, 1)
                 fb == QuantSign(rb, quantile, -1)
             IN  IF fa * fb > 0 THEN BisectFailure("ValueError", SignErrorMessage, 2)
                 ELSE IF fa = 0
                 THEN [Returned("number", "bisect", a, TRUE, 0, NoCall) EXCEPT !.evals = 2]
                 ELSE IF fb = 0
                 THEN [Returned("number", "bisect", b, TRUE, 0, NoCall) EXCEPT !.evals = 2]
                 ELSE BisectLoop(self, quantile, a, RSub(b, a), 1, guesses)

\* an inverseCDF that takes H1 = 0 for a distribution to search
inverseCDFStrict(self, quantile, guesses) ==
    IF RLt(self.H1, RZero)
    THEN Returned("number", "degenerate", RZero, TRUE, 0, NoCall)
    ELSE Bisect(self, quantile, self.H0, self.H1, guesses)

\* inverseCDF(self, quantile)
inverseCDF(self, quantile, guesses) ==
    IF RLe(self.H1, RZero)
    THEN Returned("number", "degenerate", RZero, TRUE, 0, NoCall)
    ELSE Bisect(self, quantile, self.H0, self.H1, guesses)

(* ------------------------------------------------------------------ *)
(* setPerGroupSampleSize, setBeta                                      *)
(* ------------------------------------------------------------------ *)

\* the attributes an instance has: the class attributes of lines 16-35 and
\* `errors`, which initialize sets
Attributes ==
    {"NOT_POSITIVE_DEFINITE", "MAX_ITERATIONS", "ACCURACY", "T1", "FT1", "S",
     "mzSq", "H1", "H0", "qF", "a", "N", "sEigenValues", "sStar", "exact", "errors"}

\* the number of parameters of initialize after self (line 60)
InitializeParameters == 9

\* the attributes the call of line 129 reads, in order
SizeSetterReads ==
    << "test", "FEssence", "FtFinverse", "CFixed", "CRand", "U", "thetaNull",
       "beta", "sigmaError", "sigmaG", "exact" >>

\* the attributes the call of line 133 reads, in order
BetaSetterReads ==
    << "test", "FEssence", "FtFinverse", "perGroupN", "CFixed", "CRand", "U",
       "thetaNull", "sigmaError", "sigmaG", "exact" >>

\* a setter's call self.initialize(<reads and the new value>): the
\* exception it raises, "" when initialize is entered
SetterRaises(reads) ==
    IF \E k \in 1..Len(reads) : reads[k] \notin Attributes THEN "AttributeError"
    ELSE IF Len(reads) + 1 # InitializeParameters THEN "TypeError"
    ELSE ""

(* ------------------------------------------------------------------ *)
(* Calls outside the engine's queries                                  *)
(* ------------------------------------------------------------------ *)

\* what a call gives back: a value, or an exception
Gave(value) == [kind |-> "return", value |-> value, exc |-> ""]
Threw(exc) == [kind |-> "raise", value |-> <<>>, exc |-> exc]

\* a StudyDesign object on which no attribute has been set; `set` tells
\* whether self.exceptions has been assigned
Bare == [exceptions |-> <<>>, set |-> FALSE]

\* the positional parameters of StudyDesign.__init__(**kwargs): none, not
\* even self
StudyDesignPositionalParameters == 0

\* StudyDesign(**kwargs): the instance is passed as one positional argument
StudyDesignInit ==
    IF 1 > StudyDesignPositionalParameters THEN Threw("TypeError") ELSE Gave(Bare)

\* the methods of a Python list that the model needs to tell apart
ListMethods == {"append", "extend", "insert", "pop", "remove", "clear"}

\* the exceptions the decorated __pre_calc_validation may raise ("" for
\* none); all are subclasses of Exception
ValidationOutcomes == {"", "Exception", "ValueError"}

\* validate_design(self) when the pre-calculation validation raises
\* `raised`: the object it leaves and what it gives back
validate_design(self, raised) ==
    LET cleared == [exceptions |-> <<>>, set |-> TRUE]
    IN  IF raised = ""
        THEN [self |-> cleared, out |-> Gave(Len(cleared.exceptions) = 0)]
        ELSE IF "push" \in ListMethods
        THEN LET stored == [cleared EXCEPT !.exceptions = Append(@, "Exception")]
             IN  [self |-> stored, out |-> Gave(Len(stored.exceptions) = 0)]
        ELSE [self |-> cleared, out |-> Threw("AttributeError")]

\* exeps that is not a number
NaN == [n |-> 0, d |-> 0]

\* the approximations and the cdf methods of pyglimmpse.constants
UN == "UN"
GG == "GG"
BOX == "BOX"
HF == "HF"
CM == "CM"
UCDF_MULLER1989_APPROXIMATION == "UCDF_MULLER1989_APPROXIMATION"
UCDF_MULLER2004_APPROXIMATION == "UCDF_MULLER2004_APPROXIMATION"
FMETHOD_NORMAL_LR == "FMETHOD_NORMAL_LR"
FMETHOD_OTHER == "FMETHOD_OTHER"

\* _calc_undf1_undf2(approximation, exeps, nue, rank_C, rank_U)
calc_undf1_undf2(approximation, exeps, nue, rank_C, rank_U) ==
    IF rank_U > nue /\ approximation \in {UN, GG, BOX}
    THEN Threw("Exception")
    ELSE IF exeps = NaN \/ nue <= 0
    THEN Threw("Exception")
    ELSE Gave(<< rank_C * rank_U, rank_U * nue >>)

\* the parameters of _calc_multipliers_known_sigma (line 583) and the
\* arguments the call of line 495 passes
CalcMultipliersParameters ==
    << "eps", "exeps", "hypothesis_error", "rank_C", "rank_U", "unirepmethod" >>
CalcMultipliersArguments ==
    << "eps", "exeps", "error_sum_square", "hypo_sum_square", "nue", "rank_C",
       "rank_U", "unirepmethod" >>

\* power of _calc_power_muller_approx, from what probf gave
calc_power_muller_approx(alpha, prob, fmethod) ==
    IF fmethod = FMETHOD_NORMAL_LR /\ prob = ROne
    THEN alpha
    ELSE RSub(ROne, prob)

\* unirep_power_known_sigma(...), for the pair `f` = << prob, fmethod >>
\* that probf would give
unirep_power_known_sigma(a, f) ==
    LET nue == a.total_N - a.rank_X
        undf == calc_undf1_undf2(a.approximation, a.exeps, nue, a.rank_C, a.rank_U)
    IN  IF undf.kind = "raise" THEN undf
        ELSE IF Len(CalcMultipliersArguments) # Len(CalcMultipliersParameters)
        THEN Threw("TypeError")
        ELSE Gave([power |-> calc_power_muller_approx(a.alpha, f[1], f[2]),
                   unirepmethod |-> a.unirepmethod])

(* ------------------------------------------------------------------ *)
(* Inputs                                                              *)
(* ------------------------------------------------------------------ *)

\* the matrix with the integer entries of `rows`
Mat(rows) == [i \in 1..Len(rows) |-> [j \in 1..Len(rows[i]) |-> RInt(rows[i][j])]]

\* the arguments of unirep_power_known_sigma
UnirepArguments ==
    [rank_C : {1, 2}, rank_U : {1, 2}, total_N : {2, 3, 4}, rank_X : {2, 3},
     exeps : {NaN, Rat(1, 2)}, alpha : {Rat(1, 20)},
     approximation : {UN, HF},
     unirepmethod : {UCDF_MULLER1989_APPROXIMATION, UCDF_MULLER2004_APPROXIMATION}]

\* the pairs (prob, fmethod) of probf
ProbfPairs == {Rat(1, 2), ROne} \X {FMETHOD_NORMAL_LR, FMETHOD_OTHER}

\* the entries of the matrices handed to forceSymmetric
Entries == {-1, 0, 2}

\* square matrices of sizes 1 to 3, symmetric or not
SquareMatrices ==
    { Mat(<< <<a>> >>) : a \in Entries }
    \cup { Mat(<< <<a, b>>, <<c, d>> >>) : a \in Entries, b \in Entries,
                                            c \in Entries, d \in Entries }
    \cup { Mat(<< <<1, a, b>>, <<c, 1, d>>, <<e, f, 1>> >>) :
             a \in {0, 2}, b \in {0, 2}, c \in {0, 2},
             d \in {0, 2}, e \in {0, 2}, f \in {0, 2} }

\* the orders in which the library may return n eigenvalues
Orders(n) == {p \in [1..n -> 1..n] : \A i, j \in 1..n : p[i] = p[j] => i = j}

Tests == {HLT, UNIREP}

Arguments(test, FEssence, perGroupN, Cfixed, CGaussian, thetaDiff, sigmaStar, stddevG, exact) ==
    [test |-> test, FEssence |-> Mat(FEssence), perGroupN |-> RInt(perGroupN),
     Cfixed |-> Mat(Cfixed), CGaussian |-> Mat(CGaussian),
     thetaDiff |-> Mat(thetaDiff), sigmaStar |-> Mat(sigmaStar),
     stddevG |-> RInt(stddevG), exact |-> exact]

\* designs with one fixed predictor: << FEssence, perGroupN >>
Designs1 ==
    { << << <<1>> >>, 1 >>,
      << << <<1>>, <<0>> >>, 1 >>,
      << << <<1>>, <<0>>, <<0>> >>, 1 >>,
      << << <<1>>, <<1>> >>, 2 >> }

\* models with a 1x1 contrast and a positive definite covariance
Valid1 ==
    { Arguments(HLT, d[1], d[2], << <<1>> >>, << <<g>> >>, << <<1>> >>, << <<1>> >>, 1, x) :
        d \in Designs1, g \in {0, 1}, x \in BOOLEAN }

\* designs with two fixed predictors
Designs2 ==
    { << << <<1, 0>>, <<0, 1>> >>, 1 >>,
      << << <<1, 0>>, <<0, 1>>, <<0, 0>> >>, 1 >> }

Thetas2 == { << <<1, 0>>, <<0, 1>> >>, << <<1, 0>>, <<0, 0>> >> }

\* 2x2 covariances: spherical, non-spherical, and indefinite but invertible
Sigmas2 ==
    { << <<1, 0>>, <<0, 1>> >>,
      << <<3, 0>>, <<0, 1>> >>,
      << <<1, 0>>, <<0, -2>> >> }

CGaussians2 == { << <<0>>, <<0>> >>, << <<1>>, <<1>> >> }

\* models with a 2x2 contrast
Valid2 ==
    { Arguments(HLT, d[1], d[2], << <<1, 0>>, <<0, 1>> >>, g, th, sg, 1, x) :
        d \in Designs2, g \in CGaussians2, th \in Thetas2,
        sg \in Sigmas2, x \in BOOLEAN }

\* a model whose support [H0, H1] = [0, 1/1000] is as wide as ACCURACY
Narrow1 ==
    { Arguments(HLT, << <<1>> >>, 1, << <<1>> >>, << <<1>> >>, << <<1>> >>,
                << <<1000>> >>, 1, FALSE) }

\* a model whose random predictor enters the contrast with a negative sign
Negative1 ==
    { Arguments(HLT, << <<1>>, <<0>>, <<0>> >>, 1, << <<1>> >>, << <<-2>> >>,
                << <<1>> >>, << <<1>> >>, 1, FALSE) }

\* models tested with a UNIREP-family test
Unirep2 ==
    { Arguments(UNIREP, << <<1, 0>>, <<0, 1>>, <<0, 0>> >>, 1, << <<1, 0>>, <<0, 1>> >>,
                << <<1>>, <<1>> >>, << <<1, 0>>, <<0, 1>> >>, sg, 1, FALSE) :
        sg \in Sigmas2 }

\* models on which a step of initialize fails or that are not valid
Faulty ==
    { \* F.T * F singular
      Arguments(HLT, << <<0>> >>, 1, << <<1>> >>, << <<1>> >>, << <<1>> >>, << <<1>> >>, 1, FALSE),
      \* perGroupN = 0
      Arguments(HLT, << <<1>>, <<0>> >>, 0, << <<1>> >>, << <<1>> >>, << <<1>> >>, << <<1>> >>, 1, FALSE),
      \* perGroupN < 0: T1 is not positive definite
      Arguments(HLT, << <<1>>, <<0>> >>, -1, << <<1>> >>, << <<1>> >>, << <<1>> >>, << <<1>> >>, 1, FALSE),
      \* Cfixed = 0: PPt singular
      Arguments(HLT, << <<1>>, <<0>> >>, 1, << <<0>> >>, << <<1>> >>, << <<1>> >>, << <<1>> >>, 1, FALSE),
      \* sigmaStar with a zero eigenvalue
      Arguments(HLT, << <<1>>, <<0>> >>, 1, << <<1>> >>, << <<1>> >>, << <<1>> >>, << <<0>> >>, 1, FALSE),
      Arguments(UNIREP, << <<1, 0>>, <<0, 1>>, <<0, 0>> >>, 1, << <<1, 0>>, <<0, 1>> >>,
                << <<1>>, <<1>> >>, << <<1, 0>>, <<0, 1>> >>, << <<1, 0>>, <<0, 0>> >>, 1, FALSE),
      \* sigmaStar with a negative eigenvalue
      Arguments(HLT, << <<1>>, <<0>> >>, 1, << <<1>> >>, << <<1>> >>, << <<1>> >>, << <<-1>> >>, 1, FALSE),
      \* sigmaStar not square
      Arguments(HLT, << <<1>>, <<0>> >>, 1, << <<1>> >>, << <<1>> >>, << <<1>> >>, << <<1, 0>> >>, 1, FALSE),
      \* thetaDiff = 0: H1 = 0
      Arguments(HLT, << <<1>>, <<0>> >>, 1, << <<1>> >>, << <<1>> >>, << <<0>> >>, << <<1>> >>, 1, FALSE),
      \* stddevG = 0
      Arguments(HLT, << <<1>>, <<0>> >>, 1, << <<1>> >>, << <<1>> >>, << <<1>> >>, << <<1>> >>, 0, FALSE),
      Arguments(HLT, << <<1, 0>>, <<0, 1>>, <<0, 0>> >>, 1, << <<1, 0>>, <<0, 1>> >>,
                << <<1>>, <<1>> >>, << <<1, 0>>, <<0, 1>> >>, << <<3, 0>>, <<0, 1>> >>, 0, TRUE) }

\* the arguments of a construction
ConstructArgs ==
    Valid1 \cup Valid2 \cup Narrow1 \cup Negative1 \cup Unirep2 \cup Faulty

\* the arguments of a later call of initialize on the engine: one for
\* each step of initialize that can fail, and a valid one
ReinitArgs ==
    { \* F.T * F singular
      Arguments(HLT, << <<0>> >>, 1, << <<1>> >>, << <<1>> >>, << <<1>> >>, << <<1>> >>, 1, FALSE),
      \* perGroupN < 0: T1 is not positive definite
      Arguments(HLT, << <<1>>, <<0>> >>, -1, << <<1>> >>, << <<1>> >>, << <<1>> >>, << <<1>> >>, 1, FALSE),
      \* sigmaStar with a zero eigenvalue
      Arguments(HLT, << <<1>>, <<0>> >>, 1, << <<1>> >>, << <<1>> >>, << <<1>> >>, << <<0>> >>, 1, FALSE),
      \* thetaDiff = 0: H1 = 0
      Arguments(HLT, << <<1>>, <<0>> >>, 1, << <<1>> >>, << <<1>> >>, << <<0>> >>, << <<1>> >>, 1, FALSE),
      \* stddevG = 0
      Arguments(HLT, << <<1, 0>>, <<0, 1>>, <<0, 0>> >>, 1, << <<1, 0>>, <<0, 1>> >>,
                << <<1>>, <<1>> >>, << <<1, 0>>, <<0, 1>> >>, << <<3, 0>>, <<0, 1>> >>, 0, TRUE),
      \* valid
      Arguments(HLT, << <<1>>, <<1>> >>, 2, << <<1>> >>, << <<1>> >>, << <<1>> >>, << <<1>> >>, 1, TRUE) }

\* the points w of cdf(w)
Points ==
    { RInt(-1), RZero, Rat(1, 4), Rat(1, 2), ROne, Rat(5, 4), Rat(3, 2), RInt(2), RInt(4) }

\* the quantiles of inverseCDF(quantile)
Quantiles == { RZero, Rat(1, 2), ROne }

\* the new values handed to the setters
SampleSizes == { RInt(1), RInt(2) }
Betas == { << <<1>> >>, << <<2>> >> }

(* ------------------------------------------------------------------ *)
(* The engine as a state machine                                       *)
(* ------------------------------------------------------------------ *)

VARIABLES
    engine,       \* the fields of the engine object
    constructed,  \* whether the caller holds an engine
    inputs,       \* << the arguments and eigenvalue order of the last initialize >>,
                  \* kept to state what a call was given; the engine stores none
    initRaised,   \* the exception the last initialize on the engine raised, or ""
    call,         \* the last call made: its operation and its scalar argument
    ret,          \* what the last call returned or raised
    fn,           \* the last call of a function outside the engine's queries
    out,          \* what that call returned or raised
    design        \* the fields of the StudyDesign object

vars == << engine, constructed, inputs, initRaised, call, ret, fn, out, design >>

\* the variables of the engine and of its queries, and those of the other calls
engineVars == << engine, constructed, inputs, initRaised, call, ret >>
library == << fn, out, design >>

NoReturn == Returned("none", "none", RZero, FALSE, 0, NoCall)

Init ==
    /\ engine = ClassDefaults
    /\ constructed = FALSE
    /\ inputs = <<>>
    /\ initRaised = ""
    /\ call = [op |-> "none", arg |-> RZero]
    /\ ret = NoReturn
    /\ fn = [op |-> "none"]
    /\ out = Gave(FALSE)
    /\ design = Bare

\* NonCentralityDistribution(...): __init__ calls initialize; when it raises
\* the caller gets no object
Construct(args, order) ==
    /\ ~constructed
    /\ UNCHANGED library
    /\ LET r == initialize(ClassDefaults, args, order)
       IN  /\ call' = [op |-> "construct", arg |-> RZero]
           /\ IF r.raised = ""
              THEN /\ engine' = r.eng
                   /\ constructed' = TRUE
                   /\ inputs' = << [args |-> args, order |-> order] >>
                   /\ ret' = NoReturn
              ELSE /\ engine' = ClassDefaults
                   /\ constructed' = FALSE
                   /\ inputs' = << [args |-> args, order |-> order] >>
                   /\ ret' = Raised(r.raised, "initialize", 0)
           /\ initRaised' = ""

\* engine.initialize(...) on a constructed engine
Initialize(args, order) ==
    /\ constructed
    /\ UNCHANGED library
    /\ LET r == initialize(engine, args, order)
       IN  /\ call' = [op |-> "initialize", arg |-> RZero]
           /\ engine' = r.eng
           /\ initRaised' = r.raised
           /\ inputs' = << [args |-> args, order |-> order] >>
           /\ ret' = IF r.raised = "" THEN NoReturn ELSE Raised(r.raised, "initialize", 0)
           /\ UNCHANGED constructed

\* a cdf that keeps its lower boundary answer on the engine
CdfKeeping(w) ==
    /\ constructed
    /\ UNCHANGED library
    /\ call' = [op |-> "cdf", arg |-> w]
    /\ ret' = cdf(engine, w)
    /\ engine' = IF ret'.path = "below" THEN [engine EXCEPT !.H0 = w] ELSE engine
    /\ UNCHANGED << constructed, inputs, initRaised >>

\* engine.cdf(w)
Cdf(w) ==
    /\ constructed
    /\ UNCHANGED library
    /\ call' = [op |-> "cdf", arg |-> w]
    /\ ret' = cdf(engine, w)
    /\ UNCHANGED << engine, constructed, inputs, initRaised >>

\* engine.inverseCDF(quantile)
InverseCDF(quantile, guesses) ==
    /\ constructed
    /\ UNCHANGED library
    /\ call' = [op |-> "inverseCDF", arg |-> quantile]
    /\ ret' = inverseCDF(engine, quantile, guesses)
    /\ UNCHANGED << engine, constructed, inputs, initRaised >>

\* a setter: the arguments of its call of initialize are evaluated first
Setter(op, arg, reads, args) ==
    /\ constructed
    /\ UNCHANGED library
    /\ call' = [op |-> op, arg |-> arg]
    /\ LET exc == SetterRaises(reads)
           r == initialize(engine, args, inputs[1].order)
       IN  IF exc # ""
           THEN /\ ret' = Raised(exc, op, 0)
                /\ UNCHANGED << engine, constructed, inputs, initRaised >>
           ELSE /\ engine' = r.eng
                /\ initRaised' = r.raised
                /\ inputs' = << [args |-> args, order |-> inputs[1].order] >>
                /\ ret' = IF r.raised = "" THEN NoReturn ELSE Raised(r.raised, "initialize", 0)
                /\ UNCHANGED constructed

\* engine.setPerGroupSampleSize(perGroupN)
SetPerGroupSampleSize(perGroupN) ==
    Setter("setPerGroupSampleSize", perGroupN, SizeSetterReads,
           [inputs[1].args EXCEPT !.perGroupN = perGroupN])

\* engine.setBeta(beta)
SetBeta(beta) ==
    Setter("setBeta", beta[1][1], BetaSetterReads, inputs[1].args)

Next ==
    \/ \E args \in ConstructArgs : \E order \in Orders(Rows(args.Cfixed)) :
          Construct(args, order)
    \/ \E args \in ReinitArgs : \E order \in Orders(Rows(args.Cfixed)) :
          Initialize(args, order)
    \/ \E w \in Points : Cdf(w)
    \/ \E quantile \in Quantiles :
          \E guesses \in [1..BisectHalvings -> {-1, 1}] :
             InverseCDF(quantile, guesses)
    \/ \E perGroupN \in SampleSizes : SetPerGroupSampleSize(perGroupN)
    \/ \E beta \in Betas : SetBeta(Mat(beta))

Spec == Init /\ [][Next]_vars

(* ------------------------------------------------------------------ *)
(* The other calls as a state machine                                  *)
(* ------------------------------------------------------------------ *)

\* forceSymmetric(m), a method that reads no field of the engine
ForceSymmetric(m) ==
    /\ fn' = [op |-> "forceSymmetric", m |-> m]
    /\ out' = Gave(forceSymmetric(m))
    /\ UNCHANGED << engineVars, design >>

\* StudyDesign(**kwargs)
NewStudyDesign ==
    /\ fn' = [op |-> "StudyDesign"]
    /\ out' = StudyDesignInit
    /\ design' = Bare
    /\ UNCHANGED engineVars

\* design.validate_design(), on an object made without __init__
ValidateDesign(raised) ==
    /\ fn' = [op |-> "validate_design", raised |-> raised, before |-> design]
    /\ out' = validate_design(design, raised).out
    /\ design' = validate_design(design, raised).self
    /\ UNCHANGED engineVars

\* unirep_power_known_sigma(...)
UnirepPowerKnownSigma(a, f) ==
    /\ fn' = [op |-> "unirep_power_known_sigma", a |-> a]
    /\ out' = unirep_power_known_sigma(a, f)
    /\ UNCHANGED << engineVars, design >>

NextLibrary ==
    \/ \E m \in SquareMatrices : ForceSymmetric(m)
    \/ NewStudyDesign
    \/ \E raised \in ValidationOutcomes : ValidateDesign(raised)
    \/ \E a \in UnirepArguments : \E f \in ProbfPairs : UnirepPowerKnownSigma(a, f)

SpecLibrary == Init /\ [][NextLibrary]_vars

(* ------------------------------------------------------------------ *)
(* Properties                                                          *)
(* ------------------------------------------------------------------ *)

\* a result is a probability: a number, in [0, 1] when the model knows it
\* (a number computed by a collaborator is a probability by its contract)
IsProbability(r) ==
    /\ r.kind = "number"
    /\ r.known => RLe(RZero, r.val) /\ RLe(r.val, ROne)

\* C1: every return of cdf(w) is a single probability value in [0, 1],
\* never a (probability, method) pair or a distribution object
C1_CdfReturnsProbability ==
    (call.op = "cdf" /\ ret.kind # "raise") => IsProbability(ret)

\* C2: cdf(w) applies its boundary policy before it builds any chi-square
\* term: 0 when H1 <= 0 or w <= H0, otherwise 1 when H1 - w <= 0, and
\* terms are built only when H1 > 0 and H0 < w < H1
C2_BoundaryPolicy ==
    call.op = "cdf" =>
        /\ (RLe(engine.H1, RZero) \/ RLe(call.arg, engine.H0)) =>
              (ret.kind = "number" /\ ret.val = RZero /\ ret.known /\ ret.nterms = 0)
        /\ (~(RLe(engine.H1, RZero) \/ RLe(call.arg, engine.H0))
               /\ RLe(RSub(engine.H1, call.arg), RZero)) =>
              (ret.kind = "number" /\ ret.val = ROne /\ ret.known /\ ret.nterms = 0)
        /\ ret.nterms > 0 =>
              (RLt(RZero, engine.H1) /\ RLt(engine.H0, call.arg)
                  /\ RLt(call.arg, engine.H1))

\* C2 witness: a call in which both boundary tests are true, answered by
\* the first one
C2_Witness ==
    /\ call.op = "cdf"
    /\ RLe(engine.H1, RZero)
    /\ RLe(RSub(engine.H1, call.arg), RZero)
    /\ ret.val = RZero /\ ret.nterms = 0

\* C3 as claimed: for every constructed engine cdf(H0) = 0, and
\* cdf(w) = 1 for every w >= H1
C3_EndpointsAsClaimed ==
    call.op = "cdf" =>
        /\ call.arg = engine.H0 => (ret.kind = "number" /\ ret.val = RZero)
        /\ RLe(engine.H1, call.arg) => (ret.kind = "number" /\ ret.val = ROne)

\* C3 amended: cdf(H0) = 0; cdf(w) = 1 for every w >= H1 that is above
\* H0, when H1 > 0; cdf(w) = 0 for every w when H1 <= 0
C3_Endpoints ==
    call.op = "cdf" =>
        /\ call.arg = engine.H0 => (ret.kind = "number" /\ ret.val = RZero)
        /\ (RLe(engine.H1, call.arg) /\ RLt(RZero, engine.H1)
               /\ RLt(engine.H0, call.arg)) =>
              (ret.kind = "number" /\ ret.val = ROne)
        /\ RLe(engine.H1, RZero) => (ret.kind = "number" /\ ret.val = RZero)

\* C3 witness: a call at or above H1 > 0 that returned 1
C3_Witness ==
    /\ call.op = "cdf"
    /\ RLt(RZero, engine.H1) /\ RLe(engine.H1, call.arg) /\ RLt(engine.H0, call.arg)
    /\ ret.val = ROne /\ ret.known

\* r1 <= r2 for two results of cdf: both are numbers, in order when the
\* model knows both (a collaborator's numbers are taken to be in order)
ResultLe(r1, r2) ==
    /\ r1.kind = "number" /\ r2.kind = "number"
    /\ (r1.known /\ r2.known) => RLe(r1.val, r2.val)

\* C4: for a fixed engine cdf is non-decreasing in w over [H0, H1]
C4_Monotone ==
    constructed =>
        \A w1 \in Points : \A w2 \in Points :
            (RLe(engine.H0, w1) /\ RLe(w1, w2) /\ RLe(w2, engine.H1)) =>
                ResultLe(cdf(engine, w1), cdf(engine, w2))

\* a result of cdf is within the tolerance of the quantile
WithinTolerance(r, quantile) ==
    /\ r.kind = "number"
    /\ r.known => /\ RLe(RSub(r.val, quantile), ACCURACY)
                  /\ RLe(RSub(quantile, r.val), ACCURACY)

\* C5: for H1 > 0 and a quantile q in (0, 1), inverseCDF(q) returns a w in
\* [H0, H1] with cdf(w) within the tolerance of q
C5_InverseWithinTolerance ==
    (call.op = "inverseCDF" /\ RLt(RZero, engine.H1)
        /\ RLt(RZero, call.arg) /\ RLt(call.arg, ROne)) =>
        /\ ret.kind = "number"
        /\ RLe(engine.H0, ret.val) /\ RLe(ret.val, engine.H1)
        /\ WithinTolerance(cdf(engine, ret.val), call.arg)

\* C6: after initialize failed part-way on an engine, no cdf or inverseCDF
\* call on it returns a value
C6_NoResultAfterFailedInitialize ==
    (initRaised # "" /\ call.op \in {"cdf", "inverseCDF"}) => ret.kind = "raise"

\* C7: setPerGroupSampleSize(n) and setBeta(beta) complete, and leave the
\* engine in the state of one freshly constructed with the changed input
C7_SettersRecompute ==
    /\ call.op \in {"setPerGroupSampleSize", "setBeta"} => ret.kind # "raise"
    /\ call.op = "setPerGroupSampleSize" =>
          engine = initialize(ClassDefaults,
                              [inputs[1].args EXCEPT !.perGroupN = call.arg],
                              inputs[1].order).eng

\* C8: constructing with a square sigma_star that has a zero or a negative
\* eigenvalue does not raise and yields an engine whose error list holds
\* the not-positive-definite error
C8_NotPositiveDefiniteRecorded ==
    (call.op = "construct"
        /\ Rows(inputs[1].args.sigmaStar) = Cols(inputs[1].args.sigmaStar)
        /\ ~isPositiveDefinite(inputs[1].args.sigmaStar)) =>
        /\ ret.kind # "raise"
        /\ constructed
        /\ \E k \in 1..Len(engine.errors) : engine.errors[k] = ERR_NOT_POSITIVE_DEFINITE

\* the eigenvector that goes with the k-th stored eigenvalue is the j-th
\* unit vector: the k-th entry of mzSq is the squared projection on it
GoesWith(k, j) ==
    /\ engine.S[j][j] = engine.sEigenValues[k]
    /\ engine.mzSq[k][1] =
          RMul(RDiv(RMul(engine.FT1[j][j], inputs[1].args.CGaussian[j][1]),
                    inputs[1].args.stddevG),
               RDiv(RMul(engine.FT1[j][j], inputs[1].args.CGaussian[j][1]),
                    inputs[1].args.stddevG))

\* C9: after construction the stored eigenvalues of S are in strictly
\* descending order, whatever order the library returned them in, and the
\* eigenvectors are reordered with them
C9_EigenvaluesDescending ==
    (call.op = "construct" /\ constructed) =>
        /\ \A k \in 1..(Len(engine.sEigenValues) - 1) :
              RLt(engine.sEigenValues[k + 1], engine.sEigenValues[k])
        /\ \A k \in 1..Len(engine.sEigenValues) :
              \E j \in 1..Len(engine.sEigenValues) : GoesWith(k, j)

\* the largest eigenvalue of the diagonal matrix S
LargestEigenvalue(S) ==
    CHOOSE v \in {S[j][j] : j \in 1..Rows(S)} : \A j \in 1..Rows(S) : RLe(S[j][j], v)

\* C10: after every successful construction 0 <= H0 <= H1, where H0 is
\* H1 * (1 - largest eigenvalue of S), clamped to 0 when negative
C10_SupportBounds ==
    (call.op = "construct" /\ constructed /\ engine.errors = <<>>) =>
        /\ RLe(RZero, engine.H0) /\ RLe(engine.H0, engine.H1)
        /\ engine.H0 =
              (IF RLt(RMul(engine.H1, RSub(ROne, LargestEigenvalue(engine.S))), RZero)
               THEN RZero
               ELSE RMul(engine.H1, RSub(ROne, LargestEigenvalue(engine.S))))

\* C11: getSigmaStarInverse returns the direct inverse of sigma_star for
\* the Hotelling-Lawley-Trace test, and for a UNIREP-family test the
\* sphericity-adjusted multiple of the identity, without raising
C11_InverseFormByTest ==
    (inputs # <<>> /\ Rows(inputs[1].args.sigmaStar) = Cols(inputs[1].args.sigmaStar)) =>
        /\ (inputs[1].args.test = HLT /\ Invertible(inputs[1].args.sigmaStar)) =>
              getSigmaStarInverse(inputs[1].args.sigmaStar, HLT)
                  = Inv(inputs[1].args.sigmaStar)
        /\ inputs[1].args.test = UNIREP =>
              /\ SigmaStarInverseRaises(inputs[1].args.sigmaStar, UNIREP) = ""
              /\ getSigmaStarInverse(inputs[1].args.sigmaStar, UNIREP)
                    = UnirepInverse(inputs[1].args.sigmaStar)

\* the text of a quantile, as a message would name it
QuantileText(quantile) == ToString(quantile.n) \o "/" \o ToString(quantile.d)

\* C12: when the bisection of inverseCDF(quantile) fails because the root
\* is not bracketed, the failure raised has a message that names the
\* quantile
C12_FailureNamesQuantile ==
    (call.op = "inverseCDF" /\ ret.kind = "raise"
        /\ \E k \in 1..Len(ret.msg) : ret.msg[k] = SignErrorMessage) =>
        \E k \in 1..Len(ret.msg) : ret.msg[k] = QuantileText(call.arg)

\* the width of the bracket [H0, H1] after `halvings` halvings
BracketWidth(halvings) ==
    RMul(RSub(engine.H1, engine.H0), Rat(1, 2 ^ halvings))

\* C13: the bisection of inverseCDF runs with the engine's knobs: it stops
\* once the bracket on w is narrower than ACCURACY, so it never evaluates
\* a further midpoint of a bracket already narrower than ACCURACY (and it
\* makes at most MAX_ITERATIONS halvings)
C13_BisectionUsesEngineKnobs ==
    (call.op = "inverseCDF" /\ ret.evals >= 4) =>
        /\ RLe(ACCURACY, BracketWidth(ret.evals - 3))
        /\ ret.evals - 2 <= MAX_ITERATIONS

\* C14: whenever H1 <= 0, inverseCDF(quantile) returns 0 at once, for
\* every quantile, without evaluating cdf or starting the bisection
C14_DegenerateInverse ==
    (call.op = "inverseCDF" /\ RLe(engine.H1, RZero)) =>
        /\ ret.kind = "number" /\ ret.known /\ ret.val = RZero
        /\ ret.evals = 0 /\ ret.path = "degenerate"

\* C14 witness: inverseCDF answered 0 on an engine with H1 <= 0, for a
\* quantile inside (0, 1)
C14_Witness ==
    /\ call.op = "inverseCDF"
    /\ RLe(engine.H1, RZero)
    /\ RLt(RZero, call.arg) /\ RLt(call.arg, ROne)
    /\ ret.kind = "number" /\ ret.val = RZero /\ ret.evals = 0

\* C15: for every square matrix m, r = forceSymmetric(m) has
\* r[i][j] = r[j][i] for all i, j, and r[i][j] = m[i][j] for all i >= j
C15_ForceSymmetric ==
    fn.op = "forceSymmetric" =>
        /\ out.kind = "return"
        /\ Rows(out.value) = Rows(fn.m) /\ Cols(out.value) = Cols(fn.m)
        /\ \A i \in 1..Rows(fn.m) : \A j \in 1..Cols(fn.m) :
              /\ out.value[i][j] = out.value[j][i]
              /\ i >= j => out.value[i][j] = fn.m[i][j]

\* C15 witness: forceSymmetric changed a matrix that was not symmetric
C15_Witness ==
    /\ fn.op = "forceSymmetric"
    /\ Rows(fn.m) = 3
    /\ fn.m[1][3] # fn.m[3][1]
    /\ out.value[1][3] = fn.m[3][1]
    /\ out.value # fn.m

\* C16: validate_design clears the stored exceptions, returns True when
\* the pre-calculation validation raises nothing, and returns False with
\* the failure stored in self.exceptions when it raises; it never raises
C16_ValidateDesign ==
    fn.op = "validate_design" =>
        /\ out.kind = "return"
        /\ fn.raised = "" => (out.value = TRUE /\ design.exceptions = <<>>)
        /\ fn.raised # "" => (out.value = FALSE /\ Len(design.exceptions) = 1)

\* C19: for total_N > rank_X, an exeps that is a number and
\* rank_U <= total_N - rank_X, unirep_power_known_sigma does not raise and
\* returns a Power built from the computed power and unirepmethod
C19_UnirepPowerKnownSigma ==
    (fn.op = "unirep_power_known_sigma"
        /\ fn.a.total_N > fn.a.rank_X
        /\ fn.a.exeps # NaN
        /\ fn.a.rank_U <= fn.a.total_N - fn.a.rank_X) =>
        /\ out.kind = "return"
        /\ out.value.unirepmethod = fn.a.unirepmethod

\* the counters cdf has at its special-case checks in the last call
Moments == Accumulate(ChiSquareTerms(engine, call.arg))

\* Nstar * (H1 - w) of the last call, the divisor of Fstar
FstarDivisor ==
    RMul(RSub(RAdd(RSub(engine.N, RInt(engine.qF)), RInt(engine.a)), ROne),
         RSub(engine.H1, call.arg))

C18_QueriesArePure ==
    [][ /\ call'.op \in {"cdf", "inverseCDF"} =>
              /\ engine' = engine
              /\ constructed' = constructed /\ initRaised' = initRaised
        /\ call'.op = "cdf" => ret' = cdf(engine', call'.arg)
        /\ call'.op = "inverseCDF" =>
              \E guesses \in [1..BisectHalvings -> {-1, 1}] :
                 ret' = inverseCDF(engine', call'.arg, guesses) ]_vars

\* C18 witness: a query that built terms was answered on an engine that
\* has every field as its construction left it
C18_Witness ==
    /\ constructed /\ initRaised = ""
    /\ call.op = "inverseCDF" /\ ret.evals >= 3
    /\ engine = initialize(ClassDefaults, inputs[1].args, inputs[1].order).eng

\* C20: whenever cdf gets past its boundary checks, b0 = 1 - w/H1 is
\* strictly between 0 and 1, numPositive >= 1 at the special-case checks,
\* the "no positive-weight terms" return is never taken, and the value 1
\* is returned only by the H1 - w <= 0 boundary check
C20_BaseTermPositive ==
    call.op = "cdf" =>
        /\ ret.nterms > 0 =>
              /\ RLt(RZero, RSub(ROne, RDiv(call.arg, engine.H1)))
              /\ RLt(RSub(ROne, RDiv(call.arg, engine.H1)), ROne)
        /\ (ret.nterms > 0 /\ ret.kind # "raise") => Moments.numPositive >= 1
        /\ ret.path # "noPositive"
        /\ (ret.kind = "number" /\ ret.known /\ ret.val = ROne) => ret.path = "above"

\* C20 witness: cdf got past its boundary checks and counted a negative
\* weight besides the positive base weight
C20_Witness ==
    /\ call.op = "cdf"
    /\ ret.nterms > 1 /\ ret.kind # "raise"
    /\ Moments.numPositive = 1 /\ Moments.numNegative >= 1

\* C21: whenever cdf reaches its special case with numPositive = 1 and
\* numNegative = 1, it returns from one of the two noncentral-F branches,
\* never from the exact solver or the Satterthwaite approximation: the
\* positive term is the central base term, and the negative term's
\* noncentrality, a square, is 0 or > 0
C21_SpecialCaseReturns ==
    (call.op = "cdf" /\ ret.nterms > 0 /\ ret.kind # "raise"
        /\ Moments.numPositive = 1 /\ Moments.numNegative = 1) =>
        /\ ret.path \in {"probf", "oneMinusProbf"}
        /\ ret.call.fn = "probf"
        /\ Moments.lastPositiveNoncentrality = RZero
        /\ RLe(RZero, Moments.lastNegativeNoncentrality)
        /\ ret.path = "probf" <=> Moments.lastNegativeNoncentrality = RZero

\* C21 witness: the special case was reached with a negative term whose
\* noncentrality is the square of a negative projection
C21_Witness ==
    /\ call.op = "cdf" /\ ret.nterms = 2
    /\ Moments.numPositive = 1 /\ Moments.numNegative = 1
    /\ inputs[1].args.CGaussian[1][1] = RInt(-2)
    /\ Moments.lastNegativeNoncentrality = RInt(4)
    /\ ret.path = "oneMinusProbf"

\* C22: in the one-positive/one-negative special case of cdf, for every
\* engine with N > qF and every w with H0 < w < H1, Nstar = N - qF + a - 1
\* is nonzero, so Fstar = w / (Nstar * (H1 - w)) is defined
C22_FstarDefined ==
    (call.op = "cdf" /\ ret.nterms > 0 /\ ret.kind # "raise"
        /\ Moments.numPositive = 1 /\ Moments.numNegative = 1
        /\ RLt(RInt(engine.qF), engine.N)
        /\ RLt(engine.H0, call.arg) /\ RLt(call.arg, engine.H1)) =>
        /\ RSub(RAdd(RSub(engine.N, RInt(engine.qF)), RInt(engine.a)), ROne) # RZero
        /\ FstarDivisor # RZero
        /\ ret.call.xis = "finite"

====
